---- MODULE Spec2Model ----
(***************************************************************************)
(* Realtime WebSocket example clients: StepFunRealtimeClient (index.js),   *)
(* InteractiveRealtimeClient and RealtimeClient (interactive.js) and       *)
(* ToolCallClient (tool-call-example.js).                                  *)
(*                                                                         *)
(* One client object is modelled per behaviour; `client` says which class  *)
(* it is.  Fields that two classes share by name (ws, isConnected) are one *)
(* variable; a field a class does not have keeps its initial value.        *)
(***************************************************************************)
EXTENDS Integers, Sequences, FiniteSets, TLC

(* ------------------------------ bounds -------------------------------- *)
\* longest accumulated text / transcript, in fragments' characters
MaxLen == 2
\* most audio chunks accumulated in currentAudioChunks
MaxChunks == 2
\* most WebSocket objects one client creates
MaxSockets == 2
\* most setTimeout timers pending at once
MaxTimers == 2
\* most MediaRecorder objects one page creates
MaxRecorders == 2
\* most data blobs one MediaRecorder delivers
MaxData == 2
\* most calls of sendAudio, and of processRecording, suspended at an await at
\* once
MaxJobs == 1
\* most setInterval timers running at once
MaxIntervals == 2
\* most calls of one recording function suspended at an await at once
MaxOverlap == 2

(* --------------------------- program constants ------------------------ *)
\* WebSocket.readyState values (interactive.js:349)
CONNECTING == 0
OPEN == 1
CLOSING == 2
CLOSED == 3

Classes == {"StepFunRealtimeClient", "InteractiveRealtimeClient",
            "ToolCallClient", "RealtimeClient"}
NodeClasses == {"StepFunRealtimeClient", "InteractiveRealtimeClient", "ToolCallClient"}

(* ------------------------------ base64 -------------------------------- *)
B64Alphabet ==
  << "A","B","C","D","E","F","G","H","I","J","K","L","M","N","O","P",
     "Q","R","S","T","U","V","W","X","Y","Z","a","b","c","d","e","f",
     "g","h","i","j","k","l","m","n","o","p","q","r","s","t","u","v",
     "w","x","y","z","0","1","2","3","4","5","6","7","8","9","+","/" >>

B64Char(n) == B64Alphabet[n + 1]
B64Index(c) == (CHOOSE i \in 1..64 : B64Alphabet[i] = c) - 1

RECURSIVE btoa(_)
\* btoa over a byte sequence: 3 bytes -> 4 characters, "=" padding at the end
btoa(bytes) ==
  IF Len(bytes) = 0 THEN << >>
  ELSE IF Len(bytes) = 1 THEN
    << B64Char(bytes[1] \div 4), B64Char((bytes[1] % 4) * 16), "=", "=" >>
  ELSE IF Len(bytes) = 2 THEN
    << B64Char(bytes[1] \div 4),
       B64Char((bytes[1] % 4) * 16 + bytes[2] \div 16),
       B64Char((bytes[2] % 16) * 4), "=" >>
  ELSE
    << B64Char(bytes[1] \div 4),
       B64Char((bytes[1] % 4) * 16 + bytes[2] \div 16),
       B64Char((bytes[2] % 16) * 4 + bytes[3] \div 64),
       B64Char(bytes[3] % 64) >> \o btoa(SubSeq(bytes, 4, Len(bytes)))

\* arrayBufferToBase64: bytes -> binary string -> btoa
arrayBufferToBase64(buffer) == btoa(buffer)

RECURSIVE atob(_)
\* atob over a padded base64 text: 4 characters -> 3, 2 or 1 bytes
atob(s) ==
  IF Len(s) < 4 THEN << >>
  ELSE
    LET a == B64Index(s[1])
        b == B64Index(s[2])
        rest == atob(SubSeq(s, 5, Len(s)))
    IN IF s[3] = "=" THEN << a * 4 + b \div 16 >> \o rest
       ELSE LET c == B64Index(s[3])
            IN IF s[4] = "=" THEN
                 << a * 4 + b \div 16, (b % 16) * 16 + c \div 4 >> \o rest
               ELSE
                 << a * 4 + b \div 16, (b % 16) * 16 + c \div 4,
                    (c % 4) * 64 + B64Index(s[4]) >> \o rest

RECURSIVE Flatten(_)
\* concatenation of a sequence of sequences, in order
Flatten(ss) == IF Len(ss) = 0 THEN << >> ELSE Head(ss) \o Flatten(Tail(ss))

\* playAudio's byte assembly: atob every chunk, then copy each buffer at
\* the running offset into one Uint8Array
combinedBytes(base64Chunks) ==
  Flatten([i \in 1..Len(base64Chunks) |-> atob(base64Chunks[i])])

(* ------------------------------ inputs -------------------------------- *)
\* Texts are sequences of one-character strings, so that += is \o.
Deltas == { <<"a">>, <<"b">> }

RECURSIVE TextsOfLen(_)
TextsOfLen(n) ==
  IF n = 0 THEN { << >> }
  ELSE { t \o d : t \in TextsOfLen(n - 1), d \in Deltas }

\* every text the server can build from at most MaxLen fragments
Texts == UNION { TextsOfLen(n) : n \in 0..MaxLen }

\* PCM byte chunks the server splits its audio into (1, 2 and 3 bytes: the
\* three padding cases of base64)
ByteChunks == { <<72>>, <<101, 108>>, <<0, 255, 16>> }

FunctionNames == { "get_weather", "generate_horoscope", "delete_files" }
CallIds == { "call_1", "call_2" }
\* argument texts of response.function_call_arguments.done; the last one is
\* a truncated object
ArgStrings == { "{\"location\":\"Beijing\"}", "{\"location\":\"NY\"}",
                "{\"sign\":\"Leo\"}", "{}", "null", "{\"loc" }
\* the fragments response.function_call_arguments.delta streams them in,
\* in the order the server sends them for one call
ArgStream == << "{\"loc", "ation\":\"NY\"}" >>
ArgDeltas == { << ArgStream[k] >> : k \in 1..Len(ArgStream) }
\* the text a sequence of fragments adds up to
RECURSIVE Joined(_)
Joined(frags) ==
  IF Len(frags) = 0 THEN "" ELSE Head(frags) \o Joined(Tail(frags))
\* error payloads of an error event: an object with a message, a bare
\* string, or no error field at all
ErrorPayloads == { "object", "string", "missing" }

EventTypes ==
  { "session.created", "session.updated", "conversation.item.created",
    "response.created", "response.output_item.added",
    "response.content_part.added", "response.text.delta",
    "response.text.done", "response.audio.delta", "response.audio.done",
    "response.audio_transcript.delta", "response.audio_transcript.done",
    "response.content_part.done", "response.output_item.done",
    "response.done", "response.function_call_arguments.delta",
    "response.function_call_arguments.done",
    "input_audio_buffer.speech_started", "input_audio_buffer.speech_stopped",
    "input_audio_buffer.committed", "rate_limits.updated", "error",
    "foo.bar" }

\* a decoded event: every field present, unused ones at their default
Ev(t) == [ type |-> t, delta |-> << >>, text |-> << >>, transcript |-> << >>,
           name |-> "", arguments |-> "", call_id |-> "", error |-> "missing" ]

PlainTypes ==
  EventTypes \ { "response.text.delta", "response.text.done",
                 "response.audio.delta", "response.audio_transcript.delta",
                 "response.audio_transcript.done",
                 "response.function_call_arguments.delta",
                 "response.function_call_arguments.done", "error" }

Events ==
  { Ev(t) : t \in PlainTypes }
  \cup { [Ev("response.text.delta") EXCEPT !.delta = d] : d \in Deltas }
  \cup { [Ev("response.text.done") EXCEPT !.text = t] : t \in Texts }
  \cup { [Ev("response.audio.delta") EXCEPT !.delta = btoa(c)] : c \in ByteChunks }
  \cup { [Ev("response.audio_transcript.delta") EXCEPT !.delta = d] : d \in Deltas }
  \cup { [Ev("response.audio_transcript.done") EXCEPT !.transcript = t] : t \in Texts }
  \cup { [Ev("response.function_call_arguments.delta")
            EXCEPT !.delta = d, !.call_id = c] : d \in ArgDeltas, c \in CallIds }
  \cup { [Ev("response.function_call_arguments.done")
            EXCEPT !.name = n, !.arguments = a, !.call_id = c] :
              n \in FunctionNames, a \in ArgStrings, c \in CallIds }
  \cup { [Ev("error") EXCEPT !.error = p] : p \in ErrorPayloads }

(* ------------------------------- state -------------------------------- *)
VARIABLES
  client,               \* which class the object is
  alive,                \* the page / the Node process is still running
  socks,                \* readyState of every WebSocket created, by creation
  ws,                   \* this.ws: 0 for null, else an index into socks
  isConnected,          \* this.isConnected
  sessId,               \* this.sessId: 0 for null
  btn,                  \* disabled flag of every button of the page
  currentResponse,      \* InteractiveRealtimeClient.currentResponse
  currentTextResponse,  \* RealtimeClient.currentTextResponse
  currentAudioChunks,   \* RealtimeClient.currentAudioChunks
  currentTranscript,    \* RealtimeClient.currentTranscript
  responseTimeout,      \* this.responseTimeout: 0 for unset, else a timer id
  timers,               \* ids of the pending setTimeout timers
  pendingFunctionCalls, \* ToolCallClient.pendingFunctionCalls (keys)
  recorders,            \* every MediaRecorder created (with its stream)
  isRecording,          \* this.isRecording
  mediaRecorder,        \* this.mediaRecorder: 0 for null, else a recorder
  audioChunks,          \* this.audioChunks
  isContinuousRecording,   \* this.isContinuousRecording
  continuousStream,        \* this.continuousStream: 0 for null
  continuousMediaRecorder, \* this.continuousMediaRecorder: 0 for null
  continuousAudioChunks,   \* this.continuousAudioChunks
  continuousInterval,      \* this.continuousInterval: 0 for null
  intervals,            \* ids of the setInterval timers still running
  awaiting,             \* the calls suspended at an await
  out,                  \* messages handed to ws.send by the last step
  logged,               \* what the last step logged / rendered
  played,               \* argument of the last step's playAudio call, if any
  invoked,              \* tool handlers the last step invoked
  thrown,               \* exception the last step raised ("none" if none)
  lastOp,               \* the operation or inbound event of the last step
  closeCalls,           \* close() / disconnect() calls in a row, up to 2
  lastCall,             \* name, arguments, call_id of the last step's tool call
  sealedText,           \* the accumulated text as response.text.done found it
  respOpen,             \* history: a response.created without response.done
  respText,             \* history: text deltas since response.created
  respChunks,           \* history: audio deltas since response.created
  respBytes,            \* history: the bytes those audio deltas encode
  respTranscript,       \* history: transcript deltas since response.created
  textSeals,            \* history: response.text.done since response.created
  overlapped,           \* history: the last response.created found one open
  sessionReady,         \* history: session.created / .updated since connect()
  toolCalls             \* history: per call id, the argument fragments streamed
                        \* and whether a result has been submitted

connVars == << socks, ws, isConnected, sessId, btn >>
accVars == << currentResponse, currentTextResponse, currentAudioChunks,
              currentTranscript >>
timerVars == << responseTimeout, timers >>
recVars == << isRecording, mediaRecorder, audioChunks >>
contVars == << isContinuousRecording, continuousStream, continuousMediaRecorder,
               continuousAudioChunks, continuousInterval, intervals >>
obsVars == << out, logged, played, invoked, thrown, lastOp, closeCalls, lastCall,
              sealedText >>
histVars == << respOpen, respText, respChunks, respBytes, respTranscript,
               textSeals, overlapped, sessionReady, toolCalls >>
vars == << client, alive, connVars, accVars, timerVars, pendingFunctionCalls,
           recorders, recVars, contVars, awaiting, obsVars, histVars >>

NoCall == [ name |-> "", arguments |-> "", call_id |-> "" ]
Log(kind, text) == [ kind |-> kind, text |-> text ]

\* the page's buttons as disconnect() leaves them: only "connect" enabled
ButtonsDisconnected ==
  [ connectBtn |-> FALSE, disconnectBtn |-> TRUE, uploadBtn |-> TRUE,
    recordBtn |-> TRUE, continuousRecordBtn |-> TRUE, testBtn |-> TRUE ]
\* and as onopen leaves them
ButtonsConnected ==
  [ connectBtn |-> TRUE, disconnectBtn |-> FALSE, uploadBtn |-> FALSE,
    recordBtn |-> FALSE, continuousRecordBtn |-> FALSE, testBtn |-> FALSE ]

Init ==
  /\ client \in Classes
  /\ alive = TRUE
  /\ socks = << >>
  /\ ws = 0
  /\ isConnected = FALSE
  /\ sessId = 0
  /\ btn = ButtonsDisconnected
  /\ currentResponse = << >>
  /\ currentTextResponse = << >>
  /\ currentAudioChunks = << >>
  /\ currentTranscript = << >>
  /\ responseTimeout = 0
  /\ timers = {}
  /\ pendingFunctionCalls = {}
  /\ recorders = << >>
  /\ isRecording = FALSE
  /\ mediaRecorder = 0
  /\ audioChunks = << >>
  /\ isContinuousRecording = FALSE
  /\ continuousStream = 0
  /\ continuousMediaRecorder = 0
  /\ continuousAudioChunks = << >>
  /\ continuousInterval = 0
  /\ intervals = {}
  /\ awaiting = {}
  /\ out = << >>
  /\ logged = << >>
  /\ played = << >>
  /\ invoked = << >>
  /\ thrown = "none"
  /\ lastOp = "new"
  /\ closeCalls = 0
  /\ lastCall = NoCall
  /\ sealedText = << >>
  /\ respOpen = FALSE
  /\ respText = << >>
  /\ respChunks = << >>
  /\ respBytes = << >>
  /\ respTranscript = << >>
  /\ textSeals = 0
  /\ overlapped = FALSE
  /\ sessionReady = FALSE
  /\ toolCalls = [ c \in CallIds |-> [ frags |-> << >>, state |-> "none" ] ]

(* ------------------------- outbound messages -------------------------- *)
NoOutput == [ none |-> TRUE ]
\* a JSON message; fields it does not have keep their default
Msg(type) == [ type |-> type, item |-> "", text |-> << >>, call_id |-> "",
               output |-> NoOutput, sess_id |-> 0, audio |-> << >>,
               sock |-> 0, connected |-> FALSE, readyState |-> CLOSED ]

\* one call of this.ws.send(JSON.stringify(m)), stamped with the socket it
\* was called on and what the client and the socket were at that moment
wsSend(m) == [ m EXCEPT !.sock = ws, !.connected = isConnected,
                        !.readyState = socks[ws] ]

\* a faulty send that hands a conversation item over only while the socket is
\* open, and anything else whenever the flag is set
send_itemsNeedOpen(event) ==
  IF isConnected /\ (event.item = "" \/ socks[ws] = OPEN)
  THEN << wsSend(event) >> ELSE << >>
\* send(event) of the three Node classes: a silent (or logged) no-op unless
\* isConnected
send(event) == IF isConnected THEN << wsSend(event) >> ELSE << >>

(* ------------------------------ tool calls ---------------------------- *)
Undefined == "undefined"
\* JSON.parse on the argument texts of ArgStrings
JSON_parse(s) ==
  CASE s = "{\"location\":\"Beijing\"}" ->
         [ ok |-> TRUE, isNull |-> FALSE, location |-> "Beijing", sign |-> Undefined ]
    [] s = "{\"location\":\"NY\"}" ->
         [ ok |-> TRUE, isNull |-> FALSE, location |-> "NY", sign |-> Undefined ]
    [] s = "{\"sign\":\"Leo\"}" ->
         [ ok |-> TRUE, isNull |-> FALSE, location |-> Undefined, sign |-> "Leo" ]
    [] s = "{}" ->
         [ ok |-> TRUE, isNull |-> FALSE, location |-> Undefined, sign |-> Undefined ]
    [] s = "null" ->
         [ ok |-> TRUE, isNull |-> TRUE, location |-> Undefined, sign |-> Undefined ]
    [] OTHER ->
         [ ok |-> FALSE, isNull |-> FALSE, location |-> Undefined, sign |-> Undefined ]

weatherData ==
  [ l \in { "Beijing", "Shanghai", "Shenzhen" } |->
      CASE l = "Beijing" -> [ temperature |-> 15, condition |-> "sunny", humidity |-> 45 ]
        [] l = "Shanghai" -> [ temperature |-> 20, condition |-> "cloudy", humidity |-> 60 ]
        [] l = "Shenzhen" -> [ temperature |-> 25, condition |-> "drizzle", humidity |-> 75 ] ]

getWeather(location) ==
  IF location \in DOMAIN weatherData THEN weatherData[location]
  ELSE [ temperature |-> 18, condition |-> "unknown", humidity |-> 50 ]

\* generateHoroscope draws the fortune, the number and the colour at random
generateHoroscope(sign) ==
  { [ sign |-> sign, fortune |-> f, lucky_number |-> n, lucky_color |-> c ] :
      f \in 0..4, n \in { 0, 50, 99 }, c \in 0..3 }

UnknownFunctionError == [ error |-> "unknown function" ]

\* returnFunctionResult: the function_call_output item, then response.create
returnFunctionResult(callId, result) ==
  send([ Msg("conversation.item.create") EXCEPT
           !.item = "function_call_output", !.call_id = callId, !.output = result ])
  \o send(Msg("response.create"))

\* handleFunctionCall as the set of its possible outcomes
\* [thrown, invoked, out]: JSON.parse may throw, args.location / args.sign
\* throw on null, the horoscope is random
handleFunctionCall(event) ==
  LET args == JSON_parse(event.arguments) IN
  IF ~args.ok THEN
    { [ thrown |-> "SyntaxError", invoked |-> << >>, out |-> << >> ] }
  ELSE IF event.name = "get_weather" THEN
    IF args.isNull THEN
      { [ thrown |-> "TypeError", invoked |-> << >>, out |-> << >> ] }
    ELSE
      { [ thrown |-> "none", invoked |-> << "getWeather" >>,
          out |-> returnFunctionResult(event.call_id, getWeather(args.location)) ] }
  ELSE IF event.name = "generate_horoscope" THEN
    IF args.isNull THEN
      { [ thrown |-> "TypeError", invoked |-> << >>, out |-> << >> ] }
    ELSE
      { [ thrown |-> "none", invoked |-> << "generateHoroscope" >>,
          out |-> returnFunctionResult(event.call_id, r) ] :
            r \in generateHoroscope(args.sign) }
  ELSE
    { [ thrown |-> "none", invoked |-> << >>,
        out |-> returnFunctionResult(event.call_id, UnknownFunctionError) ] }

\* this.currentTextResponse += data.delta (and the transcript alike)
appendDelta(acc, delta) == acc \o delta
\* a faulty push that puts the newest chunk first (unshift for push)
pushChunk_unshift(chunks, delta) == << delta >> \o chunks
\* this.currentAudioChunks.push(data.delta)
pushChunk(chunks, delta) == Append(chunks, delta)

(* -------------------------- inbound handlers -------------------------- *)
\* StepFunRealtimeClient.handleServerEvent: every branch only prints
StepFun_handleServerEvent(event) ==
  /\ logged' =
       CASE event.type = "response.text.delta" -> << Log("stdout", event.delta) >>
         [] event.type = "response.text.done" -> << Log("console", event.text) >>
         [] event.type = "error" -> << Log("stderr", << >>) >>
         [] OTHER -> << Log("console", << >>) >>
  /\ out' = << >> /\ played' = << >> /\ invoked' = << >>
  /\ thrown' = "none"
  /\ UNCHANGED << alive, accVars, timerVars, pendingFunctionCalls >>

\* InteractiveRealtimeClient.handleServerEvent
Interactive_handleServerEvent(event) ==
  /\ currentResponse' =
       CASE event.type = "response.text.delta" ->
              appendDelta(currentResponse, event.delta)
         [] event.type = "response.text.done" -> << >>
         [] OTHER -> currentResponse
  /\ logged' =
       CASE event.type \in { "session.created", "session.updated" } ->
              << Log("console", << >>) >>
         [] event.type = "response.text.delta" -> << Log("stdout", event.delta) >>
         [] event.type = "response.text.done" -> << Log("console", << >>) >>
         [] event.type = "response.done" -> << Log("prompt", << >>) >>
         [] event.type = "error" /\ event.error # "missing" ->
              << Log("stderr", << >>), Log("prompt", << >>) >>
         [] OTHER -> << >>
  \* event.error.message on an event without an error field
  /\ thrown' = IF event.type = "error" /\ event.error = "missing"
               THEN "TypeError" ELSE "none"
  /\ alive' = (thrown' = "none")
  /\ out' = << >> /\ played' = << >> /\ invoked' = << >>
  /\ UNCHANGED << currentTextResponse, currentAudioChunks, currentTranscript,
                  timerVars, pendingFunctionCalls >>

\* ToolCallClient.handleServerEvent
Tool_handleServerEvent(event) ==
  /\ IF event.type = "response.function_call_arguments.done"
     THEN \E r \in handleFunctionCall(event) :
            /\ thrown' = r.thrown
            /\ invoked' = r.invoked
            /\ out' = r.out
     ELSE thrown' = "none" /\ invoked' = << >> /\ out' = << >>
  /\ logged' =
       CASE event.type \in { "response.function_call_arguments.delta",
                             "response.text.delta" } ->
              << Log("console", << >>), Log("stdout", event.delta) >>
         [] event.type = "error" -> << Log("console", << >>), Log("stderr", << >>) >>
         [] OTHER -> << Log("console", << >>) >>
  \* an exception leaves the 'message' listener and ends the process
  /\ alive' = (thrown' = "none")
  /\ played' = << >>
  /\ UNCHANGED << accVars, timerVars, pendingFunctionCalls >>

\* RealtimeClient.playAudio(base64Chunks): what reaches the audio buffer
playAudio(base64Chunks) ==
  IF Len(base64Chunks) = 0 THEN << >>
  ELSE << [ chunks |-> base64Chunks, combined |-> combinedBytes(base64Chunks) ] >>

\* the case labels of handleResponse's switch; anything else is "default"
SwitchTypes ==
  EventTypes \ { "response.function_call_arguments.delta",
                 "response.function_call_arguments.done", "error", "foo.bar" }

\* a faulty handler that keeps the text only across text deltas: any other
\* event, an unknown one included, clears it
textAfter_clearsOnOther(data) ==
  IF data.type = "response.text.delta"
  THEN appendDelta(currentTextResponse, data.delta)
  ELSE << >>
\* currentTextResponse after handleResponse(data): reset on
\* response.created, grown on response.text.delta, else untouched
textAfter(data) ==
  CASE data.type = "response.created" -> << >>
    [] data.type = "response.text.delta" ->
         appendDelta(currentTextResponse, data.delta)
    [] OTHER -> currentTextResponse

\* RealtimeClient.handleResponse
handleResponse(data) ==
  \* every inbound message cancels the pending no-response warning
  /\ IF responseTimeout # 0
     THEN timers' = timers \ { responseTimeout } /\ responseTimeout' = 0
     ELSE UNCHANGED timerVars
  /\ currentTextResponse' = textAfter(data)
  /\ currentAudioChunks' =
       CASE data.type = "response.created" -> << >>
         [] data.type = "response.audio.delta" ->
              pushChunk(currentAudioChunks, data.delta)
         [] OTHER -> currentAudioChunks
  /\ currentTranscript' =
       CASE data.type = "response.created" -> << >>
         [] data.type = "response.audio_transcript.delta" ->
              appendDelta(currentTranscript, data.delta)
         [] OTHER -> currentTranscript
  /\ played' = IF data.type = "response.audio.done" /\ Len(currentAudioChunks) > 0
               THEN playAudio(currentAudioChunks) ELSE << >>
  /\ logged' =
       CASE data.type = "error" -> << Log("error", << >>) >>
         [] data.type = "response.text.delta" ->
              << Log("currentText", currentTextResponse') >>
         [] data.type = "response.text.done" ->
              << Log("system", << >>), Log("text", data.text) >>
         [] data.type = "response.audio.done" /\ Len(currentAudioChunks) > 0 ->
              << Log("system", << >>), Log("system", << >>) >>
         [] data.type = "response.audio_transcript.delta" ->
              << Log("transcript", currentTranscript') >>
         [] data.type = "response.audio_transcript.done" ->
              << Log("transcript", data.transcript) >>
         [] data.type = "response.done" ->
              << Log("system", << >>), Log("system", << >>) >>
         [] data.type = "rate_limits.updated" -> << >>
         [] data.type \notin SwitchTypes -> << Log("response", << >>) >>
         [] OTHER -> << Log("system", << >>) >>
  /\ out' = << >> /\ invoked' = << >>
  /\ thrown' = "none"
  /\ UNCHANGED << alive, currentResponse, pendingFunctionCalls >>

\* the history of the event stream itself, whatever the client does with it
\* (but for toolCalls, which also records that a result went out)
History(event, bytes) ==
  /\ respOpen' = CASE event.type = "response.created" -> TRUE
                   [] event.type = "response.done" -> FALSE
                   [] OTHER -> respOpen
  /\ respText' = CASE event.type = "response.created" -> << >>
                   [] event.type = "response.text.delta" -> respText \o event.delta
                   [] OTHER -> respText
  /\ respChunks' = CASE event.type = "response.created" -> << >>
                     [] event.type = "response.audio.delta" ->
                          Append(respChunks, event.delta)
                     [] OTHER -> respChunks
  /\ respBytes' = CASE event.type = "response.created" -> << >>
                    [] event.type = "response.audio.delta" -> respBytes \o bytes
                    [] OTHER -> respBytes
  /\ respTranscript' =
       CASE event.type = "response.created" -> << >>
         [] event.type = "response.audio_transcript.delta" ->
              respTranscript \o event.delta
         [] OTHER -> respTranscript
  /\ textSeals' = CASE event.type = "response.created" -> 0
                    [] event.type = "response.text.done" ->
                         IF textSeals < 2 THEN textSeals + 1 ELSE 2
                    [] OTHER -> textSeals
  /\ overlapped' = (event.type = "response.created" /\ respOpen)
  /\ sessionReady' = (sessionReady
                      \/ event.type \in { "session.created", "session.updated" })
  /\ toolCalls' =
       CASE event.type = "response.function_call_arguments.delta" ->
              [ toolCalls EXCEPT
                  ![event.call_id].frags = @ \o event.delta,
                  ![event.call_id].state = IF @ = "none" THEN "open" ELSE @ ]
         [] /\ event.type = "response.function_call_arguments.done"
            /\ \E k \in 1..Len(out') : /\ out'[k].item = "function_call_output"
                                       /\ out'[k].call_id = event.call_id ->
              [ toolCalls EXCEPT ![event.call_id].state = "resolved" ]
         [] OTHER -> toolCalls

\* the bounds on what the server streams within the model
WithinBounds(event) ==
  /\ event.type = "response.text.delta" =>
       /\ Len(respText) < MaxLen
       /\ Len(currentResponse) < MaxLen
       /\ Len(currentTextResponse) < MaxLen
  /\ event.type = "response.audio_transcript.delta" =>
       /\ Len(respTranscript) < MaxLen
       /\ Len(currentTranscript) < MaxLen
  /\ event.type = "response.audio.delta" =>
       /\ Len(respChunks) < MaxChunks
       /\ Len(currentAudioChunks) < MaxChunks
  /\ event.type = "response.function_call_arguments.delta" =>
       /\ Len(toolCalls[event.call_id].frags) < Len(ArgStream)
       /\ event.delta = << ArgStream[Len(toolCalls[event.call_id].frags) + 1] >>

\* the bytes the server encoded into an audio delta
SourceBytes(event) ==
  IF event.type = "response.audio.delta"
  THEN CHOOSE c \in ByteChunks : btoa(c) = event.delta
  ELSE << >>

\* ws.on('message') / ws.onmessage of socket i: one decoded frame.  A page's
\* socket delivers messages only while OPEN.  A Node socket also delivers
\* them while the closing handshake of an opened connection runs, that is
\* between its 'open' and its 'close' event, the window in which the Node
\* classes hold isConnected.
onmessage(i, event) ==
  /\ alive
  /\ i \in 1..Len(socks)
  /\ IF client = "RealtimeClient" THEN socks[i] = OPEN
     ELSE isConnected /\ socks[i] \in { OPEN, CLOSING }
  /\ WithinBounds(event)
  /\ CASE client = "StepFunRealtimeClient" -> StepFun_handleServerEvent(event)
       [] client = "InteractiveRealtimeClient" -> Interactive_handleServerEvent(event)
       [] client = "ToolCallClient" -> Tool_handleServerEvent(event)
       [] client = "RealtimeClient" -> handleResponse(event)
  /\ History(event, SourceBytes(event))
  /\ lastOp' = event.type
  /\ closeCalls' = 0
  /\ lastCall' = IF event.type = "response.function_call_arguments.done"
                 THEN [ name |-> event.name, arguments |-> event.arguments,
                        call_id |-> event.call_id ]
                 ELSE NoCall
  /\ sealedText' = IF event.type # "response.text.done" THEN << >>
                   ELSE IF client = "RealtimeClient" THEN currentTextResponse
                   ELSE currentResponse
  /\ UNCHANGED << client, connVars, recorders, recVars, contVars, awaiting >>

(* ------------------------ what a step leaves behind ------------------- *)
\* the steps that run RealtimeClient.disconnect() or a Node client's close()
CloseOps ==
  IF client = "RealtimeClient" THEN { "disconnect", "close_event" }
  ELSE { "close" }

Obs(op, o, l, t) ==
  /\ lastOp' = op
  /\ closeCalls' = IF op \notin CloseOps THEN 0
                   ELSE IF closeCalls < 2 THEN closeCalls + 1 ELSE 2
  /\ lastCall' = NoCall
  /\ sealedText' = << >>
  /\ out' = o
  /\ logged' = l
  /\ thrown' = t
  /\ played' = << >>
  /\ invoked' = << >>

\* WebSocket.close(): an open or connecting socket starts closing
wsClose(s, i) ==
  IF i # 0 /\ s[i] \in { CONNECTING, OPEN } THEN [ s EXCEPT ![i] = CLOSING ] ELSE s

FreshTimer == CHOOSE t \in 1..(MaxTimers + 1) : t \notin timers \cup { responseTimeout }
FreshInterval ==
  CHOOSE t \in 1..(MaxIntervals + 1) : t \notin intervals \cup { continuousInterval }
Suspended(fn) == { j \in awaiting : j.fn = fn }
\* the recorder starts and the interval callback can overlap themselves: nothing
\* in the page waits for the one before
JobLimit(fn) ==
  IF fn \in { "startRecording", "startContinuousRecording", "interval" }
  THEN MaxOverlap ELSE MaxJobs
Job(fn, blob) ==
  [ fn |-> fn, blob |-> blob,
    n |-> CHOOSE n \in 1..JobLimit(fn) : \A j \in Suspended(fn) : j.n # n ]
CanSuspend(fn) == Cardinality(Suspended(fn)) < JobLimit(fn)

(* ------------------------- connection lifecycle ----------------------- *)
\* connect(): a new WebSocket replaces this.ws; the old one is not closed.
\* The Node scripts call it once, from main(); the page calls it from the
\* connect button, which stays enabled until a socket opens.
connect ==
  /\ alive
  /\ Len(socks) < MaxSockets
  /\ IF client = "RealtimeClient" THEN ~btn.connectBtn ELSE socks = << >>
  /\ socks' = Append(socks, CONNECTING)
  /\ ws' = Len(socks) + 1
  /\ Obs("connect", << >>, << Log("system", << >>) >>, "none")
  /\ sessionReady' = FALSE
  /\ UNCHANGED << client, alive, isConnected, sessId, btn, accVars, timerVars,
                  pendingFunctionCalls, recorders, recVars, contVars, awaiting,
                  respOpen, respText, respChunks, respBytes, respTranscript,
                  textSeals, overlapped, toolCalls >>

\* the 'open' event of socket i: onopen marks the client connected
onopen(i) ==
  /\ alive
  /\ i \in 1..Len(socks)
  /\ socks[i] = CONNECTING
  /\ socks' = [ socks EXCEPT ![i] = OPEN ]
  /\ isConnected' = TRUE
  /\ IF client = "RealtimeClient"
     THEN sessId' = i /\ btn' = ButtonsConnected
     ELSE UNCHANGED << sessId, btn >>
  /\ Obs("open", << >>, << Log("system", << >>) >>, "none")
  /\ UNCHANGED << client, alive, ws, accVars, timerVars, pendingFunctionCalls,
                  recorders, recVars, contVars, awaiting, histVars >>

\* stopContinuousRecording(): the values it leaves
StopContinuous ==
  LET stopRec == continuousMediaRecorder # 0
                 /\ recorders[continuousMediaRecorder].state # "inactive"
      r1 == IF stopRec
            THEN [ recorders EXCEPT ![continuousMediaRecorder].state = "inactive",
                                    ![continuousMediaRecorder].flush = TRUE ]
            ELSE recorders
      r2 == IF continuousStream # 0
            THEN [ r1 EXCEPT ![continuousStream].live = FALSE ]
            ELSE r1
  IN [ recorders |-> r2,
       intervals |-> IF continuousInterval # 0
                     THEN intervals \ { continuousInterval } ELSE intervals,
       continuousInterval |-> 0,
       continuousMediaRecorder |-> IF stopRec THEN 0 ELSE continuousMediaRecorder,
       continuousStream |-> 0,
       continuousAudioChunks |-> << >>,
       isContinuousRecording |-> FALSE ]

ContinuousNow ==
  [ recorders |-> recorders, intervals |-> intervals,
    continuousInterval |-> continuousInterval,
    continuousMediaRecorder |-> continuousMediaRecorder,
    continuousStream |-> continuousStream,
    continuousAudioChunks |-> continuousAudioChunks,
    isContinuousRecording |-> isContinuousRecording ]

SetContinuous(c) ==
  /\ recorders' = c.recorders
  /\ intervals' = c.intervals
  /\ continuousInterval' = c.continuousInterval
  /\ continuousMediaRecorder' = c.continuousMediaRecorder
  /\ continuousStream' = c.continuousStream
  /\ continuousAudioChunks' = c.continuousAudioChunks
  /\ isContinuousRecording' = c.isContinuousRecording

\* RealtimeClient.disconnect(), run on the sockets s (s is socks, or socks
\* with the socket whose close event is being handled already CLOSED)
disconnect(s) ==
  /\ isConnected' = FALSE
  /\ sessId' = 0
  /\ btn' = ButtonsDisconnected
  /\ SetContinuous(IF isContinuousRecording THEN StopContinuous ELSE ContinuousNow)
  /\ socks' = wsClose(s, ws)
  /\ ws' = 0

\* the disconnect button
disconnectClick ==
  /\ alive
  /\ client = "RealtimeClient"
  /\ ~btn.disconnectBtn
  /\ disconnect(socks)
  /\ Obs("disconnect", << >>,
         IF isContinuousRecording
         THEN << Log("system", << >>), Log("system", << >>) >>
         ELSE << Log("system", << >>) >>, "none")
  /\ UNCHANGED << client, alive, accVars, timerVars, pendingFunctionCalls,
                  recVars, awaiting, histVars >>

\* the 'close' event of socket i
onclose(i) ==
  /\ alive
  /\ i \in 1..Len(socks)
  /\ socks[i] # CLOSED
  /\ IF client = "RealtimeClient"
     THEN /\ disconnect([ socks EXCEPT ![i] = CLOSED ])
          /\ UNCHANGED alive
     ELSE /\ socks' = [ socks EXCEPT ![i] = CLOSED ]
          /\ isConnected' = FALSE
          \* InteractiveRealtimeClient ends the process here
          /\ alive' = (client # "InteractiveRealtimeClient")
          /\ UNCHANGED << ws, sessId, btn, recorders, contVars >>
  /\ Obs("close_event", << >>,
         IF client = "ToolCallClient" THEN << >> ELSE << Log("system", << >>) >>,
         "none")
  /\ UNCHANGED << client, accVars, timerVars, pendingFunctionCalls, recVars,
                  awaiting, histVars >>

\* close() of the three Node classes
close ==
  /\ alive
  /\ client \in NodeClasses
  /\ socks' = wsClose(socks, ws)
  /\ Obs("close", << >>, << >>, "none")
  /\ UNCHANGED << client, alive, ws, isConnected, sessId, btn, accVars,
                  timerVars, pendingFunctionCalls, recorders, recVars, contVars,
                  awaiting, histVars >>

(* --------------------------- transport errors ------------------------- *)
\* the 'error' event of socket i.  The browser fires it together with the
\* close event (onerror, then onclose, in one task, the socket CLOSED); the
\* ws library does so for a failed handshake, and for an error on an open
\* socket it starts closing and emits 'close' later.
onerror(i) ==
  /\ alive
  /\ i \in 1..Len(socks)
  /\ socks[i] \in { CONNECTING, OPEN }
  /\ IF client = "RealtimeClient"
     THEN /\ disconnect([ socks EXCEPT ![i] = CLOSED ])
          /\ UNCHANGED alive
     ELSE /\ socks' = [ socks EXCEPT ![i] = IF socks[i] = CONNECTING
                                            THEN CLOSED ELSE CLOSING ]
          /\ isConnected' = (isConnected /\ socks[i] # CONNECTING)
          /\ alive' = ~(client = "InteractiveRealtimeClient"
                         /\ socks[i] = CONNECTING)
          /\ UNCHANGED << ws, sessId, btn, recorders, contVars >>
  /\ Obs("socket_error", << >>,
         CASE client = "RealtimeClient" ->
                << Log("error", << >>), Log("system", << >>) >>
           [] client = "ToolCallClient" -> << >>
           [] OTHER -> IF socks[i] = CONNECTING
                       THEN << Log("stderr", << >>), Log("system", << >>) >>
                       ELSE << Log("stderr", << >>) >>,
         \* reject(error) fails connect() only while it is still pending
         IF client \in NodeClasses /\ socks[i] = CONNECTING
         THEN "rejected" ELSE "none")
  /\ UNCHANGED << client, accVars, timerVars, pendingFunctionCalls, recVars,
                  awaiting, histVars >>

\* a frame on socket i that is not JSON: the page catches the SyntaxError of
\* JSON.parse and logs it, a Node class lets it leave the 'message' listener
onmessageUndecodable(i) ==
  /\ alive
  /\ i \in 1..Len(socks)
  /\ IF client = "RealtimeClient" THEN socks[i] = OPEN
     ELSE isConnected /\ socks[i] \in { OPEN, CLOSING }
  /\ IF client = "RealtimeClient"
     THEN /\ Obs("bad_frame", << >>, << Log("error", << >>) >>, "none")
          /\ UNCHANGED alive
     ELSE /\ Obs("bad_frame", << >>, << >>, "SyntaxError")
          /\ alive' = FALSE
  /\ UNCHANGED << client, connVars, accVars, timerVars, pendingFunctionCalls,
                  recorders, recVars, contVars, awaiting, histVars >>

(* --------------------- outbound: the Node classes --------------------- *)
UserTexts == { << >>, << "h", "i" >> }

NodeUnchanged ==
  UNCHANGED << client, alive, connVars, accVars, timerVars, pendingFunctionCalls,
               recorders, recVars, contVars, awaiting, histVars >>

\* StepFunRealtimeClient.send logs when it drops a message
DropLog(n) ==
  IF client = "StepFunRealtimeClient" /\ ~isConnected
  THEN [ i \in 1..n |-> Log("stderr", << >>) ] ELSE << >>

updateSession ==
  /\ alive
  /\ client \in NodeClasses
  /\ Obs("updateSession", send(Msg("session.update")),
         DropLog(1) \o (IF client = "StepFunRealtimeClient"
                        THEN << Log("console", << >>) >> ELSE << >>), "none")
  /\ NodeUnchanged

\* sendTextMessage(text) / sendMessage(text): the user item, then
\* response.create
sendMessage(text) ==
  /\ alive
  /\ client \in NodeClasses
  /\ Obs("sendMessage",
         send([ Msg("conversation.item.create") EXCEPT
                  !.item = "message", !.text = text ])
         \o send(Msg("response.create")),
         DropLog(2) \o (IF client = "StepFunRealtimeClient"
                        THEN << Log("console", text) >> ELSE << >>), "none")
  /\ NodeUnchanged

\* sendAudioChunk, commitAudioBuffer, clearAudioBuffer, createResponse
StepFunSingles == { "input_audio_buffer.append", "input_audio_buffer.commit",
                    "input_audio_buffer.clear", "response.create" }
sendSingle(type) ==
  /\ alive
  /\ client = "StepFunRealtimeClient"
  /\ Obs("sendSingle", send(Msg(type)), DropLog(1), "none")
  /\ NodeUnchanged

(* ----------------------- outbound: RealtimeClient --------------------- *)
PageUnchanged ==
  UNCHANGED << client, alive, connVars, accVars, pendingFunctionCalls, histVars >>

\* files the user can pick
Files == { << 116, 101, 115, 116 >> }

\* the { model_type, sess_id, audio } message of the page
AudioMsg(bytes) ==
  [ Msg("stepfun.audio") EXCEPT !.sess_id = sessId,
                                !.audio = arrayBufferToBase64(bytes) ]

\* a browser WebSocket refuses send() while it is still connecting
SendThrows == socks[ws] = CONNECTING

\* this.responseTimeout = setTimeout(..., 30000): the old handle is dropped
\* without clearTimeout
SetResponseTimeout ==
  /\ Cardinality(timers) < MaxTimers
  /\ responseTimeout' = FreshTimer
  /\ timers' = timers \cup { FreshTimer }

\* sendAudio(file) up to its await file.arrayBuffer()
sendAudio(file) ==
  /\ alive
  /\ client = "RealtimeClient"
  /\ ~btn.uploadBtn
  /\ IF ~isConnected
     THEN /\ UNCHANGED awaiting
          /\ Obs("sendAudio", << >>, << Log("error", << >>) >>, "none")
     ELSE /\ CanSuspend("sendAudio")
          /\ awaiting' = awaiting \cup { Job("sendAudio", file) }
          /\ Obs("sendAudio", << >>, << Log("system", << >>) >>, "none")
  /\ PageUnchanged
  /\ UNCHANGED << timerVars, recorders, recVars, contVars >>

\* sendAudio after the await: this.ws.readyState throws on a null socket
\* (outer catch), ws.send may throw (inner catch, return before the timer)
sendAudioResume(j) ==
  /\ alive
  /\ j \in Suspended("sendAudio")
  /\ awaiting' = awaiting \ { j }
  /\ IF ws = 0
     THEN /\ Obs("sendAudio.resume", << >>, << Log("error", << >>) >>, "none")
          /\ UNCHANGED timerVars
     ELSE IF SendThrows
     THEN /\ Obs("sendAudio.resume", << wsSend(AudioMsg(j.blob)) >>,
                 << Log("system", << >>), Log("error", << >>) >>, "none")
          /\ UNCHANGED timerVars
     ELSE /\ Obs("sendAudio.resume", << wsSend(AudioMsg(j.blob)) >>,
                 << Log("system", << >>), Log("system", << >>) >>, "none")
          /\ SetResponseTimeout
  /\ PageUnchanged
  /\ UNCHANGED << recorders, recVars, contVars >>

\* a pending 30 s timer fires: only the warning is logged
timeoutFires(t) ==
  /\ alive
  /\ t \in timers
  /\ timers' = timers \ { t }
  /\ Obs("timeout", << >>, << Log("error", << >>) >>, "none")
  /\ PageUnchanged
  /\ UNCHANGED << responseTimeout, recorders, recVars, contVars, awaiting >>

\* testConnection(): guarded by readyState, not by isConnected
testConnection ==
  /\ alive
  /\ client = "RealtimeClient"
  /\ ~btn.testBtn
  /\ IF ws = 0
     THEN Obs("testConnection", << >>, << Log("system", << >>) >>, "TypeError")
     ELSE IF socks[ws] = OPEN
     THEN Obs("testConnection", << wsSend(AudioMsg(<< 116, 101, 115, 116 >>)) >>,
              << Log("system", << >>), Log("system", << >>) >>, "none")
     ELSE Obs("testConnection", << >>,
              << Log("system", << >>), Log("error", << >>) >>, "none")
  /\ PageUnchanged
  /\ UNCHANGED << timerVars, recorders, recVars, contVars, awaiting >>

(* ------------------------- single-shot recording ---------------------- *)
NewRecorder(kind) ==
  [ kind |-> kind, state |-> "recording", flush |-> FALSE, live |-> TRUE, n |-> 0 ]

\* the bytes of the k-th blob of recorder r
BlobBytes(r, k) == << r, k >>

\* toggleRecording(): stopRecording() or the start of startRecording()
toggleRecording ==
  /\ alive
  /\ client = "RealtimeClient"
  /\ ~btn.recordBtn
  /\ IF isRecording
     THEN \* stopRecording
          /\ IF mediaRecorder # 0
             THEN /\ recorders' = [ recorders EXCEPT ![mediaRecorder].state = "inactive",
                                                     ![mediaRecorder].flush = TRUE,
                                                     ![mediaRecorder].live = FALSE ]
                  /\ isRecording' = FALSE
                  /\ Obs("stopRecording", << >>, << Log("system", << >>) >>, "none")
             ELSE /\ UNCHANGED << recorders, isRecording >>
                  /\ Obs("stopRecording", << >>, << >>, "none")
          /\ UNCHANGED awaiting
     ELSE \* startRecording up to await getUserMedia
          /\ CanSuspend("startRecording")
          /\ awaiting' = awaiting \cup { Job("startRecording", << >>) }
          /\ Obs("startRecording", << >>, << Log("system", << >>) >>, "none")
          /\ UNCHANGED << recorders, isRecording >>
  /\ PageUnchanged
  /\ UNCHANGED << timerVars, mediaRecorder, audioChunks, contVars >>

\* startRecording after getUserMedia: a new recorder is started, or the
\* permission was refused
startRecordingResume(j, granted) ==
  /\ alive
  /\ j \in Suspended("startRecording")
  /\ awaiting' = awaiting \ { j }
  /\ IF granted
     THEN /\ Len(recorders) < MaxRecorders
          /\ recorders' = Append(recorders, NewRecorder("single"))
          /\ mediaRecorder' = Len(recorders) + 1
          /\ audioChunks' = << >>
          /\ isRecording' = TRUE
          /\ Obs("startRecording.resume", << >>,
                 << Log("system", << >>), Log("system", << >>) >>, "none")
     ELSE /\ UNCHANGED << recorders, recVars >>
          /\ Obs("startRecording.resume", << >>, << Log("error", << >>) >>, "none")
  /\ PageUnchanged
  /\ UNCHANGED << timerVars, contVars >>

\* a recorder delivers a blob while it records (ondataavailable); start() is
\* called with no timeslice, so whether and when it does is the user agent's
\* choice
ondataavailable(r) ==
  /\ alive
  /\ r \in 1..Len(recorders)
  /\ recorders[r].state = "recording"
  /\ recorders[r].n < MaxData
  /\ recorders' = [ recorders EXCEPT ![r].n = @ + 1 ]
  /\ IF recorders[r].kind = "single"
     THEN /\ audioChunks' = Append(audioChunks, BlobBytes(r, recorders[r].n + 1))
          /\ UNCHANGED continuousAudioChunks
     ELSE /\ continuousAudioChunks' =
               Append(continuousAudioChunks, BlobBytes(r, recorders[r].n + 1))
          /\ UNCHANGED audioChunks
  /\ Obs("dataavailable", << >>, << >>, "none")
  /\ PageUnchanged
  /\ UNCHANGED << timerVars, isRecording, mediaRecorder, isContinuousRecording,
                  continuousStream, continuousMediaRecorder, continuousInterval,
                  intervals, awaiting >>

\* a stopped recorder delivers its last blob (pushed unless empty) and then
\* its stop event; onstop of a single-shot recorder runs processRecording()
\* up to its await audioBlob.arrayBuffer()
onstop(r, hasData) ==
  /\ alive
  /\ r \in 1..Len(recorders)
  /\ recorders[r].flush
  /\ recorders' = [ recorders EXCEPT ![r].flush = FALSE,
                                     ![r].n = IF hasData THEN @ + 1 ELSE @ ]
  /\ IF recorders[r].kind = "single"
     THEN LET chunks == IF hasData
                        THEN Append(audioChunks, BlobBytes(r, recorders[r].n + 1))
                        ELSE audioChunks
          IN /\ audioChunks' = chunks
             /\ CanSuspend("processRecording")
             /\ awaiting' = awaiting \cup { Job("processRecording", Flatten(chunks)) }
             /\ Obs("recorder.stop", << >>,
                    << Log("system", << >>), Log("system", << >>) >>, "none")
             /\ UNCHANGED continuousAudioChunks
     ELSE /\ continuousAudioChunks' =
               IF hasData
               THEN Append(continuousAudioChunks, BlobBytes(r, recorders[r].n + 1))
               ELSE continuousAudioChunks
          /\ Obs("recorder.stop", << >>, << >>, "none")
          /\ UNCHANGED << audioChunks, awaiting >>
  /\ PageUnchanged
  /\ UNCHANGED << timerVars, isRecording, mediaRecorder, isContinuousRecording,
                  continuousStream, continuousMediaRecorder, continuousInterval,
                  intervals >>

\* processRecording after the await: this.ws.send with no check of
\* isConnected; every exception is caught and logged
processRecordingResume(j) ==
  /\ alive
  /\ j \in Suspended("processRecording")
  /\ awaiting' = awaiting \ { j }
  /\ IF ws = 0
     THEN /\ Obs("processRecording.resume", << >>,
                 << Log("system", << >>), Log("error", << >>) >>, "none")
          /\ UNCHANGED timerVars
     ELSE IF SendThrows
     THEN /\ Obs("processRecording.resume", << wsSend(AudioMsg(j.blob)) >>,
                 << Log("system", << >>), Log("error", << >>) >>, "none")
          /\ UNCHANGED timerVars
     ELSE /\ Obs("processRecording.resume", << wsSend(AudioMsg(j.blob)) >>,
                 << Log("system", << >>), Log("system", << >>) >>, "none")
          /\ SetResponseTimeout
  /\ PageUnchanged
  /\ UNCHANGED << recorders, recVars, contVars >>

(* -------------------------- continuous recording ---------------------- *)
\* toggleContinuousRecording(): stopContinuousRecording() or the start of
\* startContinuousRecording()
toggleContinuousRecording ==
  /\ alive
  /\ client = "RealtimeClient"
  /\ ~btn.continuousRecordBtn
  /\ IF isContinuousRecording
     THEN /\ SetContinuous(StopContinuous)
          /\ UNCHANGED awaiting
          /\ Obs("stopContinuousRecording", << >>, << Log("system", << >>) >>, "none")
     ELSE IF ~isConnected
     THEN /\ UNCHANGED << recorders, contVars, awaiting >>
          /\ Obs("startContinuousRecording", << >>, << Log("error", << >>) >>, "none")
     ELSE /\ CanSuspend("startContinuousRecording")
          /\ awaiting' = awaiting \cup { Job("startContinuousRecording", << >>) }
          /\ UNCHANGED << recorders, contVars >>
          /\ Obs("startContinuousRecording", << >>, << Log("system", << >>) >>, "none")
  /\ PageUnchanged
  /\ UNCHANGED << timerVars, recVars >>

\* startContinuousRecording after getUserMedia: recorder and 50 ms interval
\* are started with no second look at isConnected or isContinuousRecording
startContinuousRecordingResume(j, granted) ==
  /\ alive
  /\ j \in Suspended("startContinuousRecording")
  /\ awaiting' = awaiting \ { j }
  /\ IF granted
     THEN /\ Len(recorders) < MaxRecorders
          /\ Cardinality(intervals) < MaxIntervals
          /\ recorders' = Append(recorders, NewRecorder("continuous"))
          /\ continuousStream' = Len(recorders) + 1
          /\ continuousMediaRecorder' = Len(recorders) + 1
          /\ isContinuousRecording' = TRUE
          /\ continuousAudioChunks' = << >>
          /\ continuousInterval' = FreshInterval
          /\ intervals' = intervals \cup { FreshInterval }
          /\ Obs("startContinuousRecording.resume", << >>,
                 << Log("system", << >>), Log("system", << >>) >>, "none")
     ELSE /\ isContinuousRecording' = FALSE
          /\ UNCHANGED << recorders, continuousStream, continuousMediaRecorder,
                          continuousAudioChunks, continuousInterval, intervals >>
          /\ Obs("startContinuousRecording.resume", << >>,
                 << Log("error", << >>) >>, "none")
  /\ PageUnchanged
  /\ UNCHANGED << timerVars, recVars >>

\* one run of the interval callback up to its await: it takes the chunks
\* collected so far (reading mimeType of a null recorder throws)
intervalTick(k) ==
  /\ alive
  /\ k \in intervals
  /\ IF Len(continuousAudioChunks) = 0
     THEN /\ UNCHANGED << continuousAudioChunks, awaiting >>
          /\ Obs("interval", << >>, << >>, "none")
     ELSE IF continuousMediaRecorder = 0
     THEN /\ UNCHANGED << continuousAudioChunks, awaiting >>
          /\ Obs("interval", << >>, << >>, "TypeError")
     ELSE /\ CanSuspend("interval")
          /\ awaiting' = awaiting \cup { Job("interval", Flatten(continuousAudioChunks)) }
          /\ continuousAudioChunks' = << >>
          /\ Obs("interval", << >>, << >>, "none")
  /\ PageUnchanged
  /\ UNCHANGED << timerVars, recorders, recVars, isContinuousRecording,
                  continuousStream, continuousMediaRecorder, continuousInterval,
                  intervals >>

\* the interval callback after the await: this.ws.send, unguarded and
\* outside any try
intervalResume(j) ==
  /\ alive
  /\ j \in Suspended("interval")
  /\ awaiting' = awaiting \ { j }
  /\ IF ws = 0
     THEN Obs("interval.resume", << >>, << >>, "TypeError")
     ELSE IF SendThrows
     THEN Obs("interval.resume", << wsSend(AudioMsg(j.blob)) >>, << >>,
              "InvalidStateError")
     ELSE Obs("interval.resume", << wsSend(AudioMsg(j.blob)) >>,
              << Log("system", << >>) >>, "none")
  /\ PageUnchanged
  /\ UNCHANGED << timerVars, recorders, recVars, contVars >>

(* ---------------------------- specifications -------------------------- *)
Lifecycle ==
  \/ connect
  \/ \E i \in 1..MaxSockets : onopen(i)
  \/ \E i \in 1..MaxSockets : onclose(i)

OfTypes(types) == { e \in Events : e.type \in types }

\* the text and transcript streams of a response, through every client
TextEvents ==
  OfTypes({ "session.created", "response.created", "response.text.delta",
            "response.text.done", "response.audio_transcript.delta",
            "response.audio_transcript.done", "response.done", "error",
            "foo.bar" })
NextText ==
  \/ Lifecycle
  \/ \E i \in 1..MaxSockets, event \in TextEvents : onmessage(i, event)
SpecText == Init /\ [][NextText]_vars

\* the audio stream of a response
AudioEvents ==
  OfTypes({ "response.created", "response.audio.delta", "response.audio.done",
            "response.done" })
NextAudio ==
  \/ Lifecycle
  \/ \E i \in 1..MaxSockets, event \in AudioEvents : onmessage(i, event)
SpecAudio == Init /\ [][NextAudio]_vars

\* tool calls, with the Node scripts' close()
ToolEvents ==
  OfTypes({ "session.updated", "response.function_call_arguments.done",
            "response.done" })
NextTool ==
  \/ Lifecycle
  \/ close
  \/ \E i \in 1..MaxSockets, event \in ToolEvents : onmessage(i, event)
SpecTool == Init /\ [][NextTool]_vars

\* one function's calls with the argument fragments streamed before them
ToolArgEvents ==
  { e \in OfTypes({ "response.function_call_arguments.delta",
                    "response.function_call_arguments.done" }) :
      e.name \in { "", "get_weather" } }
NextToolArgs ==
  \/ Lifecycle
  \/ \E i \in 1..MaxSockets, event \in ToolArgEvents : onmessage(i, event)
SpecToolArgs == Init /\ [][NextToolArgs]_vars

\* the session: connection state against every outbound path but the
\* recorders, with the events that matter to it
SessionEvents == OfTypes({ "session.created", "response.text.delta", "foo.bar" })
NextSession ==
  \/ Lifecycle
  \/ disconnectClick
  \/ close
  \/ updateSession
  \/ \E text \in UserTexts : sendMessage(text)
  \/ \E type \in StepFunSingles : sendSingle(type)
  \/ \E i \in 1..MaxSockets, event \in SessionEvents : onmessage(i, event)
  \/ \E file \in Files : sendAudio(file)
  \/ \E j \in awaiting : sendAudioResume(j)
  \/ \E t \in timers : timeoutFires(t)
  \/ testConnection
SpecSession == Init /\ [][NextSession]_vars

\* unknown events against the accumulated text and the response timer
UnknownEvents == OfTypes({ "response.text.delta", "foo.bar" })
NextUnknown ==
  \/ Lifecycle
  \/ \E i \in 1..MaxSockets, event \in UnknownEvents : onmessage(i, event)
  \/ \E file \in Files : sendAudio(file)
  \/ \E j \in awaiting : sendAudioResume(j)
  \/ \E t \in timers : timeoutFires(t)
SpecUnknown == Init /\ [][NextUnknown]_vars

\* single-shot recording against the page's connection
NextRecording ==
  \/ Lifecycle
  \/ disconnectClick
  \/ toggleRecording
  \/ \E j \in awaiting, granted \in BOOLEAN : startRecordingResume(j, granted)
  \/ \E r \in 1..MaxRecorders : ondataavailable(r)
  \/ \E r \in 1..MaxRecorders, hasData \in BOOLEAN : onstop(r, hasData)
  \/ \E j \in awaiting : processRecordingResume(j)
  \/ \E t \in timers : timeoutFires(t)
SpecRecording == Init /\ [][NextRecording]_vars

\* continuous recording against the connection, with every way to close
NextContinuous ==
  \/ Lifecycle
  \/ disconnectClick
  \/ close
  \/ toggleContinuousRecording
  \/ \E j \in awaiting, granted \in BOOLEAN : startContinuousRecordingResume(j, granted)
  \/ \E r \in 1..MaxRecorders : ondataavailable(r)
  \/ \E r \in 1..MaxRecorders, hasData \in BOOLEAN : onstop(r, hasData)
  \/ \E k \in intervals : intervalTick(k)
  \/ \E j \in awaiting : intervalResume(j)
SpecContinuous == Init /\ [][NextContinuous]_vars

\* the transport: socket errors and undecodable frames, with a sender of each
\* side to show what still goes out
NextTransport ==
  \/ Lifecycle
  \/ \E i \in 1..MaxSockets : onerror(i)
  \/ \E i \in 1..MaxSockets : onmessageUndecodable(i)
  \/ \E text \in UserTexts : sendMessage(text)
  \/ testConnection
  \/ close
  \/ disconnectClick
SpecTransport == Init /\ [][NextTransport]_vars

\* what the clients put together and send: user messages and tool results
NextOutbound ==
  \/ Lifecycle
  \/ \E text \in UserTexts : sendMessage(text)
  \/ \E i \in 1..MaxSockets, event \in ToolArgEvents : onmessage(i, event)
SpecOutbound == Init /\ [][NextOutbound]_vars

(* ============================== properties ============================ *)

\* the clients that accumulate streamed text
Accumulating == { "RealtimeClient", "InteractiveRealtimeClient" }

\* C1: for every sequence response.created, response.text.delta(d1..dn),
\* response.text.done of one response, the accumulated text the client holds
\* at the moment response.text.done is handled (currentTextResponse of
\* RealtimeClient, currentResponse of InteractiveRealtimeClient) is exactly
\* d1 ++ ... ++ dn.
C1_SealedTextIsConcat ==
  ( /\ client \in Accumulating
    /\ lastOp = "response.text.done"
    /\ respOpen
    /\ textSeals = 1 )
  => sealedText = respText

\* C2: the audio deltas of one response are handed to playAudio on
\* response.audio.done as one list, in arrival order, nothing dropped or
\* duplicated, and decoding and concatenating that list gives back the bytes
\* the server encoded.
C2_AudioChunksInOrder ==
  ( /\ client = "RealtimeClient"
    /\ lastOp = "response.audio.done"
    /\ respOpen )
  => IF respChunks = << >>
     THEN played = << >>
     ELSE played = << [ chunks |-> respChunks, combined |-> respBytes ] >>

\* two different chunks of one response have just been played
C2_Witness ==
  /\ client = "RealtimeClient"
  /\ lastOp = "response.audio.done"
  /\ respOpen
  /\ Len(played) = 1
  /\ Len(played[1].chunks) = 2
  /\ played[1].chunks[1] # played[1].chunks[2]
  /\ Len(played[1].combined) >= 3

\* a step reported an error: an exception, an error entry in the page's log
\* or a line on stderr
Reported ==
  \/ thrown # "none"
  \/ \E k \in 1..Len(logged) : logged[k].kind \in { "error", "stderr" }

\* C3: a response.created that arrives while an earlier response is still
\* open (no response.done yet) is treated as a protocol violation: it is
\* reported, not silently accepted.
C3_OverlapReported ==
  (lastOp = "response.created" /\ overlapped) => Reported

\* the last step handled a response.function_call_arguments.done in the
\* tool-calling client
ToolCallHandled ==
  /\ client = "ToolCallClient"
  /\ lastOp = "response.function_call_arguments.done"

\* the two messages of a resolution: the function_call_output item carrying
\* the call id, then response.create
IsResolutionPair(o, callId) ==
  /\ Len(o) = 2
  /\ o[1].type = "conversation.item.create"
  /\ o[1].item = "function_call_output"
  /\ o[1].call_id = callId
  /\ o[2].type = "response.create"

\* C4: every handled response.function_call_arguments.done sends exactly two
\* messages, the function_call_output item with the same call_id and then
\* response.create, in that order, in every connection state in which the
\* handler runs.
C4_ResolutionSendsPair ==
  ToolCallHandled => IsResolutionPair(out, lastCall.call_id)

\* C5: a call whose arguments are not valid JSON still gets an error-shaped
\* result for its call_id followed by response.create, and the client keeps
\* processing events.
C5_MalformedArgumentsAnswered ==
  (ToolCallHandled /\ ~JSON_parse(lastCall.arguments).ok)
  => /\ alive
     /\ thrown = "none"
     /\ IsResolutionPair(out, lastCall.call_id)
     /\ "error" \in DOMAIN out[1].output

\* C6: a call that names a function other than get_weather and
\* generate_horoscope invokes no handler and is answered with the built-in
\* unknown-function error and response.create.
C6_UnknownFunctionAnswered ==
  (ToolCallHandled /\ lastCall.name \notin { "get_weather", "generate_horoscope" })
  => /\ invoked = << >>
     /\ thrown = "none"
     /\ IsResolutionPair(out, lastCall.call_id)
     /\ out[1].output = UnknownFunctionError

\* C7: no outbound path calls ws.send while isConnected is false: not send(),
\* not sendAudio, not processRecording, not the continuous-recording interval
\* callback, not testConnection.
C7_NoSendWhileDisconnected ==
  \A k \in 1..Len(out) : out[k].connected

\* C9: the client is marked connected (isConnected true) only after a
\* session.created or session.updated event has been received on that
\* connection.
C9_ConnectedOnlySessionReady ==
  isConnected => sessionReady

\* the session as the client holds it: connection flag, session id, socket
\* reference, buttons, accumulators, pending calls
sessionVars == << isConnected, sessId, ws, btn, accVars, pendingFunctionCalls >>

\* C8 as stated: an event with an unknown type tag raises no error and
\* leaves every piece of client state unchanged, the pending response
\* timeout included.
C8_UnknownTagChangesNothing ==
  [][ lastOp' = "foo.bar"
      => /\ thrown' = "none"
         /\ alive' = alive
         /\ UNCHANGED << sessionVars, timerVars >> ]_vars

\* C8, amended: an event with an unknown type tag raises no error, reaches
\* the catch-all branch where there is one, and leaves the connection flag,
\* the session id and the accumulators unchanged; the page's client, as for
\* every inbound message, cancels its pending response timeout (and only
\* that one), the other clients have none.
C8_UnknownTagKeepsSession ==
  [][ lastOp' = "foo.bar"
      => /\ thrown' = "none"
         /\ alive' = alive
         /\ UNCHANGED sessionVars
         /\ out' = << >>
         /\ IF client = "RealtimeClient"
            THEN /\ logged' = << Log("response", << >>) >>
                 /\ responseTimeout' = 0
                 /\ timers' = timers \ { responseTimeout }
            ELSE UNCHANGED timerVars ]_vars

\* the page has just handled an unknown event while connected, with text
\* accumulated and an older response timer still pending
C8_Witness ==
  /\ client = "RealtimeClient"
  /\ lastOp = "foo.bar"
  /\ isConnected
  /\ sessId # 0
  /\ currentTextResponse # << >>
  /\ responseTimeout = 0
  /\ timers # {}

\* what disconnect() leaves of the page's session
PageClosed ==
  /\ ~isConnected
  /\ sessId = 0
  /\ ws = 0
  /\ btn = ButtonsDisconnected
  /\ ~isContinuousRecording
  /\ continuousInterval = 0

\* everything the client holds, the sockets themselves aside
clientVars ==
  << sessionVars, timerVars, recorders, recVars, contVars, awaiting, alive >>

\* C10: close() / disconnect() takes the session to Closed from any state and
\* is idempotent.  Every call, from any state, leaves isConnected false (and
\* the page's session id, socket reference, buttons and continuous recording
\* reset) and raises no error; a second call right after the first, direct
\* or through the socket's close event, changes nothing the client holds.
C10_CloseReachesClosed ==
  /\ [][ lastOp' \in CloseOps
         => /\ thrown' = "none"
            /\ ~isConnected'
            /\ client = "RealtimeClient" => PageClosed' ]_vars
  /\ [][ closeCalls' = 2 => UNCHANGED clientVars ]_vars

(* ------------------------- after the session closed ------------------- *)
\* the caller has closed the session: disconnect() dropped the page's socket,
\* close() of a Node client left its socket closing or closed
SessionClosed ==
  IF client = "RealtimeClient" THEN ws = 0 /\ Len(socks) > 0
  ELSE ws # 0 /\ socks[ws] \in { CLOSING, CLOSED }

\* a render callback ran: response text or a streamed fragment was written out
Rendered(l) ==
  \E k \in 1..Len(l) :
    l[k].kind \in { "stdout", "currentText", "text", "transcript" }

\* C11: once the session has been closed, every event delivered afterwards is
\* a no-op: no accumulator changes, nothing is rendered or played, no tool
\* handler runs and no message (tool result, response.create) is submitted.
C11_PostCloseEventsAreNoOps ==
  [][ SessionClosed /\ lastOp' \in EventTypes
      => /\ UNCHANGED accVars
         /\ ~Rendered(logged')
         /\ played' = << >>
         /\ invoked' = << >>
         /\ out' = << >> ]_vars

(* ------------------------- the streams of a response ------------------ *)
\* the three accumulators are empty (a class holds <<>> for those it lacks)
AccumulatorsEmpty ==
  /\ currentResponse = << >>
  /\ currentTextResponse = << >>
  /\ currentAudioChunks = << >>
  /\ currentTranscript = << >>

\* C13: in every client that accumulates deltas, response.created resets the
\* text, audio and transcript accumulators to empty, so nothing of an earlier
\* response (one that never got its done events included) is carried over.
C13_ResponseCreatedResets ==
  client \in Accumulating /\ lastOp = "response.created" => AccumulatorsEmpty

\* the delta events of the three modalities
DeltaTypes == { "response.text.delta", "response.audio.delta",
                "response.audio_transcript.delta" }

\* C14: a text, audio or transcript delta that arrives while no response is
\* open (before any response.created, or after response.done) is dropped:
\* the accumulators are left unchanged and the drop is signalled.
C14_DeltaWithoutResponseDropped ==
  [][ ~respOpen /\ client \in Accumulating /\ lastOp' \in DeltaTypes
      => /\ UNCHANGED accVars
         /\ Reported' ]_vars

\* C15: response.text.done seals the text of the open response.  After the
\* seal a later response.text.delta or a second response.text.done of the same
\* response neither changes the accumulated text nor emits it again.
C15_SealedTextImmutable ==
  [][ ( /\ respOpen
        /\ textSeals >= 1
        /\ client \in Accumulating
        /\ lastOp' \in { "response.text.delta", "response.text.done" } )
      => /\ UNCHANGED << currentResponse, currentTextResponse >>
         /\ ~Rendered(logged') ]_vars

\* C16: a response.done that arrives while a stream of the response is still
\* open (text was streamed and no response.text.done sealed it) is detected
\* and reported as a protocol violation.
C16_ResponseDoneChecksSeals ==
  [][ ( /\ respOpen
        /\ respText # << >>
        /\ textSeals = 0
        /\ lastOp' = "response.done" )
      => Reported' ]_vars

\* C17: handling an inbound error event only surfaces the error payload: it
\* is reported, nothing is thrown or sent, everything the client holds
\* (connection flag, session id, socket, accumulators, timers, recorders) is
\* left unchanged and the client stays alive for the events that follow.
C17_ErrorEventOnlySurfaces ==
  [][ lastOp' = "error"
      => /\ thrown' = "none"
         /\ out' = << >>
         /\ UNCHANGED clientVars
         /\ Reported' ]_vars

(* ------------------------------ tool calls ---------------------------- *)
\* the argument text streamed so far for call c
ArgsOf(c) == Joined(toolCalls[c].frags)

\* C12: at response.function_call_arguments.done of a get_weather call whose
\* arguments are the text its fragments add up to, the handler works on the
\* JSON parse of that text, and it is invoked exactly once for the call: once
\* at the call's first done event and not again once the call is resolved.
C12_ArgumentsFromFragments ==
  [][ ( /\ lastOp' = "response.function_call_arguments.done"
        /\ client = "ToolCallClient"
        /\ lastCall'.name = "get_weather"
        /\ lastCall'.arguments = ArgsOf(lastCall'.call_id)
        /\ JSON_parse(ArgsOf(lastCall'.call_id)).ok )
      => IF toolCalls[lastCall'.call_id].state = "resolved"
         THEN invoked' = << >>
         ELSE /\ invoked' = << "getWeather" >>
              /\ Len(out') > 0
              /\ out'[1].output =
                   getWeather(JSON_parse(ArgsOf(lastCall'.call_id)).location) ]_vars

\* the step handles a response.function_call_arguments event of call c
AboutCall(c) ==
  \/ /\ lastOp' = "response.function_call_arguments.done"
     /\ lastCall'.call_id = c
  \/ /\ lastOp' = "response.function_call_arguments.delta"
     /\ toolCalls'[c].frags # toolCalls[c].frags

\* C18: each tool call id is resolved at most once.  A done event for a call
\* that is already resolved or was never opened, or a delta for a call that
\* is already resolved, is dropped: no handler runs, nothing is thrown and no
\* function_call_output or response.create is sent.
C18_CallResolvedAtMostOnce ==
  [][ \A c \in CallIds :
        ( /\ client = "ToolCallClient"
          /\ AboutCall(c)
          /\ \/ toolCalls[c].state = "resolved"
             \/ /\ toolCalls[c].state = "none"
                /\ lastOp' = "response.function_call_arguments.done" )
        => /\ invoked' = << >>
           /\ thrown' = "none"
           /\ out' = << >> ]_vars

(* ------------------------------ transport ----------------------------- *)
\* C19: a transport-level error (the socket's error event, or an inbound
\* frame that is not JSON) is surfaced to the caller and closes the session:
\* right after it isConnected is false, so that nothing more is sent.
C19_TransportErrorCloses ==
  lastOp \in { "socket_error", "bad_frame" } => (Reported /\ ~isConnected)

\* C20: nothing is handed to the transport before its required fields are
\* validated: no user message item with empty text goes out, and no tool
\* result goes out for a call id that is not a pending call (one whose
\* arguments were streamed and that has no result yet).
C20_OutboundValidated ==
  [][ \A k \in 1..Len(out') :
        /\ out'[k].item = "message" => out'[k].text # << >>
        /\ out'[k].item = "function_call_output"
             => toolCalls[out'[k].call_id].state = "open" ]_vars

(* ------------------------ sends and state changes --------------------- *)
\* C21: in the Node clients, once close() has been called nothing more is
\* passed to ws.send: a sendMessage / updateSession issued after close() and
\* before the socket's close event sends nothing.
C21_NoSendAfterClose ==
  (client \in NodeClasses /\ SessionClosed) => out = << >>

\* C24: at most one response timeout is pending at any time, and a server
\* event cancels every pending one: right after handleResponse no 30 s
\* warning is left to fire for audio sent before the event.
C24_OneTimeoutAllCancelled ==
  /\ Cardinality(timers) <= 1
  /\ (client = "RealtimeClient" /\ lastOp \in EventTypes) => timers = {}

(* ------------------------- the page's connection ---------------------- *)
\* the sockets of the client that are connecting or open
LiveSockets == { i \in 1..Len(socks) : socks[i] \in { CONNECTING, OPEN } }

\* C25: in RealtimeClient the open or close event of a socket that connect()
\* has superseded leaves the newer connection alone: this.ws, the state of
\* the newer socket, isConnected and the session id do not change; and at
\* most one socket is live per client.
C25_SupersededSocketIsolated ==
  [][ client = "RealtimeClient"
      => /\ Cardinality(LiveSockets') <= 1
         /\ lastOp' \in { "open", "close_event" }
            => \A i \in 1..Len(socks) :
                 (ws # 0 /\ i # ws /\ socks'[i] # socks[i])
                 => /\ ws' = ws
                    /\ socks'[ws] = socks[ws]
                    /\ isConnected' = isConnected
                    /\ sessId' = sessId ]_vars

\* C26: in every reachable state of RealtimeClient, isConnected is true
\* exactly when sessId is set, and when it is true this.ws is set, open, and
\* the socket whose open event set the flag.
C26_ConnectedMeansOpenSocket ==
  client = "RealtimeClient"
  => /\ isConnected <=> sessId # 0
     /\ isConnected => /\ ws # 0
                       /\ socks[ws] = OPEN
                       /\ sessId = ws

\* C27: a user text message goes out as a pair or not at all: after every
\* sendTextMessage / sendMessage either nothing was handed to the socket, or
\* exactly conversation.item.create with the message and then
\* response.create, adjacent and on the same socket; no change of the
\* connection state lets one of the two through alone.
C27_UserMessagePairAtomic ==
  lastOp = "sendMessage"
  => \/ out = << >>
     \/ /\ Len(out) = 2
        /\ out[1].type = "conversation.item.create"
        /\ out[1].item = "message"
        /\ out[2].type = "response.create"
        /\ out[2].sock = out[1].sock

\* a message sent after close(), while the socket is closing and the flag is
\* still set: both messages of the pair were handed over
C27_Witness ==
  /\ lastOp = "sendMessage"
  /\ Len(out) = 2
  /\ out[1].readyState = CLOSING
  /\ out[2].readyState = CLOSING

\* the single-shot recorders that were started and not stopped
Recording == { r \in 1..Len(recorders) :
                 recorders[r].kind = "single" /\ recorders[r].state = "recording" }

\* C28: at most one single-shot recorder is started at a time, and a started
\* recorder is the one the page holds in mediaRecorder, with isRecording set,
\* so that the next toggle stops it (none is orphaned)
C28_OneRecordingNoneOrphaned ==
  /\ Cardinality(Recording) <= 1
  /\ \A r \in Recording : mediaRecorder = r /\ isRecording

\* C22: right after stopContinuousRecording() or disconnect() has run no
\* interval timer is left running, and an interval callback that resumes after
\* its await sends audio only while continuous recording is on and never calls
\* send on a null socket
C22_StoppedMeansSilent ==
  /\ lastOp \in { "stopContinuousRecording", "disconnect", "close_event" }
     => intervals = {}
  /\ lastOp = "interval.resume"
     => /\ thrown # "TypeError"
        /\ out # << >> => isContinuousRecording

\* the chunks (recorder, number) a byte sequence is made of
Chunks(bytes) ==
  { << bytes[2 * i - 1], bytes[2 * i] >> : i \in 1..(Len(bytes) \div 2) }

\* C23: a continuous-recording chunk goes out only when no interval callback
\* still in flight holds an earlier chunk of the same recorder (the chunks
\* reach the server in capture order), and no chunk is held twice, by two
\* callbacks or by a callback and the chunk list (each is sent at most once)
C23_ChunksInOrderOnce ==
  /\ (lastOp = "interval.resume" /\ out # << >>)
     => \A j \in Suspended("interval") :
          \A c \in Chunks(j.blob), d \in Chunks(atob(out[1].audio)) :
            ~(c[1] = d[1] /\ c[2] < d[2])
  /\ \A j1 \in Suspended("interval") :
       /\ Chunks(j1.blob) \cap Chunks(Flatten(continuousAudioChunks)) = {}
       /\ \A j2 \in Suspended("interval") \ { j1 } :
            Chunks(j1.blob) \cap Chunks(j2.blob) = {}

====
